---- MODULE Spec2Model ----
(***************************************************************************)
(* Model of the serial discovery / handshake / persistent-connection layer *)
(* of RFIDSystem (src/main.py): the discovery threads (buscar, reconectar),*)
(* the handshake probe, the persistent connection (abrir/cerrar), leer_uid *)
(* under connection_lock, the continuous read loop of ConsultaWindow and   *)
(* the deletion of a card in EliminacionWindow.                            *)
(*                                                                         *)
(* Threads interleave at the granularity of one statement group per step.  *)
(* The serial device, the operating system and the operator are the        *)
(* environment: every open, write and read may fail, every read may return *)
(* any line of Lines.  Time is counted in polling slices.                  *)
(***************************************************************************)
EXTENDS Integers, Sequences, FiniteSets, TLC

(* ------------------------------ bounds --------------------------------- *)
\* number of serial ports the host can report
NumPorts == 2
\* discovery threads that can be alive at once (startup + Reconectar clicks)
NumDisc == 2
\* one-shot reader threads (RegistroWindow / EliminacionWindow)
NumOneShot == 1
\* read_loop threads of the ConsultaWindow that can be alive at once
NumLoops == 1
\* open serial.Serial objects nothing refers to that can exist at once
MaxLeaked == 1
\* listen window of the probe, in readline slices
ListenSlices == 3
\* timeout_global of leer_uid, in polling slices
ReadSlices == 2
\* lines the operating system buffers for the persistent port
MaxBuf == 1
MaxExtra == 1

(* ------------------------- program constants --------------------------- *)
HEALTHCHECK_ATTEMPTS == 3
None == 0

Ports == 1..NumPorts
Disc == 1..NumDisc
OneShot == {10 + i : i \in 1..NumOneShot}
Loops == {20 + i : i \in 1..NumLoops}
Callers == OneShot \cup Loops
\* the thread of the Tk main loop
Gui == 30
Threads == Disc \cup Callers \cup {Gui}

(* ------------------------- lines and JSON ------------------------------ *)
\* what readline().decode(errors="ignore") can hand to the program
Lines ==
  { "",
    "RFID listo",
    "{oops}",
    "[1]",
    "{\"msg\":\"boot\"}",
    "{\"status\":\"offline\"}",
    "{\"status\":\"online\"}",
    "  {\"status\":\"online\"} ",
    "{\"uid\":\"04A1B2C3\"}",
    "{\"uid\":\"04A1B2C3\",\"extra\":true}",
    "{\"uid\":\"9F00\"}",
    "{\"uid\":\"\"}",
    "{\"status\":\"online\",\"uid\":\"9F00\"}" }

\* str.strip(): removes the surrounding whitespace
Strip(s) ==
  IF s = "  {\"status\":\"online\"} " THEN "{\"status\":\"online\"}" ELSE s

\* str.startswith("{") and str.endswith("}")
InBraces(s) ==
  s \in { "{oops}", "{\"msg\":\"boot\"}", "{\"status\":\"offline\"}",
          "{\"status\":\"online\"}", "{\"uid\":\"04A1B2C3\"}",
          "{\"uid\":\"04A1B2C3\",\"extra\":true}", "{\"uid\":\"9F00\"}",
          "{\"uid\":\"\"}", "{\"status\":\"online\",\"uid\":\"9F00\"}" }

\* json.loads: the decoded value, or JSONDecodeError
JsonLoads(s) ==
  CASE s = "[1]" -> [type |-> "list", val |-> <<1>>]
    [] s = "{\"msg\":\"boot\"}" -> [type |-> "dict", val |-> [msg |-> "boot"]]
    [] s = "{\"status\":\"offline\"}" -> [type |-> "dict", val |-> [status |-> "offline"]]
    [] s = "{\"status\":\"online\"}" -> [type |-> "dict", val |-> [status |-> "online"]]
    [] s = "  {\"status\":\"online\"} " -> [type |-> "dict", val |-> [status |-> "online"]]
    [] s = "{\"uid\":\"04A1B2C3\"}" -> [type |-> "dict", val |-> [uid |-> "04A1B2C3"]]
    [] s = "{\"uid\":\"04A1B2C3\",\"extra\":true}" ->
         [type |-> "dict", val |-> [uid |-> "04A1B2C3", extra |-> "true"]]
    [] s = "{\"uid\":\"9F00\"}" -> [type |-> "dict", val |-> [uid |-> "9F00"]]
    [] s = "{\"uid\":\"\"}" -> [type |-> "dict", val |-> [uid |-> ""]]
    [] s = "{\"status\":\"online\",\"uid\":\"9F00\"}" ->
         [type |-> "dict", val |-> [status |-> "online", uid |-> "9F00"]]
    [] OTHER -> [type |-> "JSONDecodeError", val |-> <<>>]

\* isinstance(data, dict) and data.get("status") == "online"
IsOnline(data) ==
  /\ data.type = "dict"
  /\ "status" \in DOMAIN data.val
  /\ data.val["status"] = "online"

\* variant: any object that has a "status" field is taken for the reply
ProbeAcceptsCualquierStatus(raw) ==
  LET line == Strip(raw) IN
    /\ InBraces(line)
    /\ JsonLoads(line).type = "dict"
    /\ "status" \in DOMAIN JsonLoads(line).val

\* the test of the listen loop on one line read from the port
ProbeAccepts(raw) ==
  LET line == Strip(raw) IN
    /\ InBraces(line)
    /\ JsonLoads(line).type # "JSONDecodeError"
    /\ IsOnline(JsonLoads(line))

\* json.loads raises JSONDecodeError on the line leer_uid hands it
DecodeFails(raw) ==
  Strip(raw) # "" /\ JsonLoads(Strip(raw)).type = "JSONDecodeError"

\* isinstance(data, dict) and "uid" in data
HasUid(data) == data.type = "dict" /\ "uid" \in DOMAIN data.val

\* variant: only an object that holds nothing but the uid is taken
UidStepSoloUid(raw) ==
  LET line == Strip(raw) IN
    IF line = "" THEN [act |-> "sleep", uid |-> ""]
    ELSE IF JsonLoads(line).type = "JSONDecodeError" THEN [act |-> "continue", uid |-> ""]
    ELSE IF HasUid(JsonLoads(line)) /\ DOMAIN JsonLoads(line).val = {"uid"}
      THEN [act |-> "return", uid |-> JsonLoads(line).val["uid"]]
    ELSE [act |-> "sleep", uid |-> ""]

\* what one iteration of leer_uid does with a line it has read
UidStep(raw) ==
  LET line == Strip(raw) IN
    IF line = "" THEN [act |-> "sleep", uid |-> ""]
    ELSE IF JsonLoads(line).type = "JSONDecodeError" THEN [act |-> "continue", uid |-> ""]
    ELSE IF HasUid(JsonLoads(line)) THEN [act |-> "return", uid |-> JsonLoads(line).val["uid"]]
    ELSE [act |-> "sleep", uid |-> ""]

\* stands for "this line carries no uid"
NoUid == "<none>"

\* the uid a line carries when it decodes to an object with a uid
UidField(raw) ==
  IF JsonLoads(raw).type = "dict" /\ "uid" \in DOMAIN JsonLoads(raw).val
    THEN JsonLoads(raw).val["uid"] ELSE NoUid

(* ------------------------------ state ---------------------------------- *)
VARIABLES
  leaked,             \* open serial.Serial objects nothing refers to any more
  serial_connection,  \* self.serial_connection
  puerto,             \* self.puerto
  connection_lock,    \* holder of self.connection_lock, or None
  in_waiting,         \* lines buffered on the persistent port
  reading_active,     \* ConsultaWindow.reading_active
  pc,                 \* position of every thread
  ret,                \* where abrir/cerrar_conexion_serial returns to
  puertos,            \* local list of encontrar_puerto_arduino
  idx,                \* position of its for loop
  ser,                \* local handle of intentar_healthcheck_en_puerto
  sent,               \* payloads written by the running probe
  listened,           \* slices of the listen window used up
  estado,             \* result of the last discovery run of a thread
  hallado,            \* port returned by that run
  started,            \* probes begun in that run
  probes,             \* results of the probes that returned in that run
  online_rx,          \* the running probe has read a qualifying reply
  fallo_io,           \* step that met an I/O error last in the running probe,
                      \* or in the probe that failed last
  conectado,          \* abrir_conexion_serial of buscar returned True
  elapsed,            \* slices of timeout_global used up
  result,             \* how the last leer_uid of a thread ended
  rx_uid,             \* uid carried by the line the running leer_uid read last
  skipped_uid,        \* the running leer_uid read a uid line and went on
  leidas,             \* lines the running leer_uid has read
  sano,               \* the connection was open and free of I/O errors all through the call
  mal_json,           \* the running leer_uid read a line that json.loads rejected
  ventana,            \* the ConsultaWindow exists
  indicador,          \* the main window shows "Sistema conectado y operativo"
  fallo_reapertura,   \* a reopen after a device loss failed and no discovery
                      \* has connected since
  botones,            \* the operation buttons of the main window are enabled
  lazos_extra,        \* read_loop threads alive beyond those followed in pc
  antes,              \* buffered lines that arrived before the thread's
                      \* call of leer_uid began
  alumnos,            \* uids of the rows of table alumnos
  uid_eliminar,       \* EliminacionWindow.uid_eliminar
  alumno_info,        \* EliminacionWindow.alumno_info (the row, named by its uid)
  btn_eliminar,       \* the ELIMINAR button is enabled
  eliminacion,        \* the EliminacionWindow exists
  ultima_lectura      \* how the read that ended last in that window came out

connVars == <<leaked, serial_connection, puerto, in_waiting, antes>>
elimVars == <<alumnos, uid_eliminar, alumno_info, btn_eliminar, eliminacion,
              ultima_lectura>>
discLocals == <<puertos, idx, ser, sent, listened>>
discGhost == <<estado, hallado, started, probes, online_rx, fallo_io, conectado>>
ghostLect == <<rx_uid, skipped_uid, leidas, sano, mal_json>>
callVars == <<elapsed, result, rx_uid, skipped_uid, leidas, sano, mal_json>>
vars == <<leaked, serial_connection, puerto, connection_lock, in_waiting,
          reading_active, pc, ret, puertos, idx, ser, sent, listened, estado,
          hallado, started, probes, online_rx, fallo_io, conectado, elapsed,
          result, rx_uid, skipped_uid, leidas, sano, mal_json, ventana,
          indicador, fallo_reapertura, botones, lazos_extra, antes, alumnos,
          uid_eliminar, alumno_info, btn_eliminar, eliminacion, ultima_lectura>>

NoResult == [kind |-> "none", uid |-> ""]

\* self.serial_connection = None
NoConn == [obj |-> FALSE, port |-> None, is_open |-> FALSE]

\* lists comports() can return: the first n ports of the host, in host order
PortLists == { [i \in 1..n |-> i] : n \in 0..NumPorts }

\* self.serial_connection and self.serial_connection.is_open
IsOpen(sc) == sc.obj /\ sc.is_open

\* an open object loses its last reference; beyond MaxLeaked the earlier
\* ones have been collected
Leak(l) == IF Cardinality(leaked \cup {l}) <= MaxLeaked THEN leaked \cup {l} ELSE {l}

\* the persistent leaked that are open, referenced or not
OpenPersistent ==
  (IF IsOpen(serial_connection) THEN 1 ELSE 0)
  + Cardinality({l \in leaked : l.kind = "persistent"})

\* self.alumno_info = None, self.uid_eliminar = None
Nadie == "<None>"

\* no buffered line is older than a running call
SinPrevias == [c \in Callers |-> 0]

\* the buffer is a queue: a readline takes the oldest line
TrasLeer == [c \in Callers |-> IF antes[c] > 0 THEN antes[c] - 1 ELSE 0]

\* hasattr(self, btn._name ...): the name Tk gave the widget ("!button",
\* "!button2", ...) is looked up on the RFIDSystem object, which has no such
\* attribute
HasButtonAttr == FALSE

\* toggle_buttons(enabled): the state of the operation buttons afterwards
ToggleButtons(enabled, actual) == IF HasButtonAttr THEN enabled ELSE actual

Init ==
  /\ leaked = {}
  /\ serial_connection = NoConn
  /\ puerto = None
  /\ connection_lock = None
  /\ in_waiting = 0
  /\ reading_active = FALSE
  /\ pc = [t \in Threads |-> IF t = 1 THEN "encontrar" ELSE "idle"]
  /\ ret = [t \in Threads |-> "none"]
  /\ puertos = [d \in Disc |-> <<>>]
  /\ idx = [d \in Disc |-> 0]
  /\ ser = [d \in Disc |-> None]
  /\ sent = [d \in Disc |-> 0]
  /\ listened = [d \in Disc |-> 0]
  /\ estado = [d \in Disc |-> "none"]
  /\ hallado = [d \in Disc |-> None]
  /\ started = [d \in Disc |-> 0]
  /\ probes = [d \in Disc |-> <<>>]
  /\ online_rx = [d \in Disc |-> FALSE]
  /\ fallo_io = [d \in Disc |-> "none"]
  /\ conectado = [d \in Disc |-> FALSE]
  /\ elapsed = [c \in Callers |-> 0]
  /\ result = [c \in Callers |-> NoResult]
  /\ rx_uid = [c \in Callers |-> NoUid]
  /\ skipped_uid = [c \in Callers |-> FALSE]
  /\ leidas = [c \in Callers |-> 0]
  /\ sano = [c \in Callers |-> TRUE]
  /\ mal_json = [c \in Callers |-> FALSE]
  /\ ventana = FALSE
  /\ indicador = FALSE
  /\ fallo_reapertura = FALSE
  /\ botones = TRUE
  /\ lazos_extra = 0
  /\ antes = [c \in Callers |-> 0]
  /\ alumnos = {"04A1B2C3"}
  /\ uid_eliminar = Nadie
  /\ alumno_info = Nadie
  /\ btn_eliminar = FALSE
  /\ eliminacion = FALSE
  /\ ultima_lectura = NoResult

(* ----------------------- returns of subroutines ------------------------ *)
\* variant: an exit of leer_uid keeps the lock
LeerExitSinLiberar(t, res) ==
  /\ connection_lock' = connection_lock
  /\ result' = [result EXCEPT ![t] = res]
  /\ elapsed' = [elapsed EXCEPT ![t] = 0]
  /\ pc' = [pc EXCEPT ![t] = IF t \in Loops THEN "read_loop_result" ELSE "done"]

\* every exit of leer_uid leaves the with-block: the lock is released and
\* the caller sees the outcome
LeerExit(t, res) ==
  /\ connection_lock' = None
  /\ result' = [result EXCEPT ![t] = res]
  /\ elapsed' = [elapsed EXCEPT ![t] = 0]
  /\ pc' = [pc EXCEPT ![t] = IF t \in Loops THEN "read_loop_result" ELSE "done"]

\* variant: a failed reopen after a device loss is tried again
AbrirReturnReintenta(t, okv) ==
  CASE ret[t] = "buscar" ->
         /\ pc' = [pc EXCEPT ![t] = "done"]
         /\ conectado' = [conectado EXCEPT ![t] = okv]
         /\ indicador' = (okv \/ indicador)
         /\ botones' = IF okv THEN ToggleButtons(TRUE, botones) ELSE botones
         /\ fallo_reapertura' = (~okv /\ fallo_reapertura)
         /\ UNCHANGED <<connection_lock, result, elapsed, lazos_extra, elimVars>>
    [] ret[t] = "read_loop" ->
         /\ pc' = [pc EXCEPT ![t] = IF okv THEN "leer_lock" ELSE "read_loop"]
         /\ UNCHANGED <<connection_lock, result, elapsed, conectado,
                        indicador, fallo_reapertura, botones, lazos_extra, elimVars>>
    [] ret[t] = "leer_uid_pre" ->
         /\ IF okv
              THEN /\ pc' = [pc EXCEPT ![t] = "leer_reset"]
                   /\ UNCHANGED <<connection_lock, result, elapsed>>
              ELSE LeerExit(t, [kind |-> "no_connection", uid |-> ""])
         /\ UNCHANGED <<conectado, indicador, fallo_reapertura, botones, lazos_extra, elimVars>>
    [] ret[t] = "leer_uid_rec" ->
         /\ pc' = [pc EXCEPT ![t] = IF okv THEN "leer_poll" ELSE "abrir_check"]
         /\ fallo_reapertura' = (~okv \/ fallo_reapertura)
         /\ UNCHANGED <<connection_lock, result, elapsed, conectado, indicador,
                        botones, lazos_extra, elimVars>>

\* return of abrir_conexion_serial to its call site; buscar hands
\* toggle_buttons(True) to the main loop when the connection is up
AbrirReturn(t, okv) ==
  CASE ret[t] = "buscar" ->
         /\ pc' = [pc EXCEPT ![t] = "done"]
         /\ conectado' = [conectado EXCEPT ![t] = okv]
         /\ indicador' = (okv \/ indicador)
         /\ botones' = IF okv THEN ToggleButtons(TRUE, botones) ELSE botones
         /\ fallo_reapertura' = (~okv /\ fallo_reapertura)
         /\ UNCHANGED <<connection_lock, result, elapsed, lazos_extra, elimVars>>
    [] ret[t] = "read_loop" ->
         /\ pc' = [pc EXCEPT ![t] = IF okv THEN "leer_lock" ELSE "read_loop"]
         /\ UNCHANGED <<connection_lock, result, elapsed, conectado,
                        indicador, fallo_reapertura, botones, lazos_extra, elimVars>>
    [] ret[t] = "leer_uid_pre" ->
         /\ IF okv
              THEN /\ pc' = [pc EXCEPT ![t] = "leer_reset"]
                   /\ UNCHANGED <<connection_lock, result, elapsed>>
              ELSE LeerExit(t, [kind |-> "no_connection", uid |-> ""])
         /\ UNCHANGED <<conectado, indicador, fallo_reapertura, botones, lazos_extra, elimVars>>
    [] ret[t] = "leer_uid_rec" ->
         /\ IF okv
              THEN /\ pc' = [pc EXCEPT ![t] = "leer_poll"]
                   /\ UNCHANGED <<connection_lock, result, elapsed>>
              ELSE LeerExit(t, [kind |-> "lost", uid |-> ""])
         /\ fallo_reapertura' = (~okv \/ fallo_reapertura)
         /\ UNCHANGED <<conectado, indicador, botones, lazos_extra, elimVars>>

(* ---------------------- abrir_conexion_serial -------------------------- *)
AbrirCheck(t) ==
  /\ pc[t] = "abrir_check"
  /\ pc' = [pc EXCEPT ![t] = IF IsOpen(serial_connection) THEN "abrir_close" ELSE "abrir_open"]
  /\ UNCHANGED <<connVars, connection_lock, reading_active, ret, discLocals,
                 discGhost, callVars, ventana, indicador, fallo_reapertura, botones, lazos_extra, elimVars>>

\* self.serial_connection.close()
AbrirClose(t) ==
  /\ pc[t] = "abrir_close"
  /\ IF ~serial_connection.obj
       THEN \* the attribute was cleared meanwhile: AttributeError, return False
            /\ AbrirReturn(t, FALSE)
            /\ UNCHANGED <<serial_connection, in_waiting, antes>>
       ELSE /\ serial_connection' = [serial_connection EXCEPT !.is_open = FALSE]
            /\ in_waiting' = 0
            /\ antes' = SinPrevias
            /\ pc' = [pc EXCEPT ![t] = "abrir_open"]
            /\ UNCHANGED <<connection_lock, result, elapsed, conectado,
                           indicador, fallo_reapertura, botones, lazos_extra, elimVars>>
  /\ UNCHANGED <<leaked, puerto, reading_active, ret, discLocals,
                 estado, hallado, started, probes, online_rx, fallo_io,
                 ghostLect, ventana>>

\* variant: the connection is opened on some port, not on self.puerto
AbrirOpenOtroPuerto(t) ==
  /\ pc[t] = "abrir_open"
  /\ \/ /\ puerto # None
        /\ AbrirReturn(t, FALSE)
        /\ UNCHANGED <<leaked, serial_connection, in_waiting, antes>>
     \/ \E p \in Ports :
          /\ serial_connection' = [obj |-> TRUE, port |-> p, is_open |-> TRUE]
          /\ leaked' = IF IsOpen(serial_connection)
                         THEN Leak([port |-> serial_connection.port, kind |-> "persistent"])
                         ELSE leaked
          /\ in_waiting' = 0
          /\ antes' = SinPrevias
          /\ pc' = [pc EXCEPT ![t] = "abrir_settle"]
          /\ UNCHANGED <<connection_lock, result, elapsed, conectado,
                         indicador, fallo_reapertura, botones, lazos_extra, elimVars>>
  /\ UNCHANGED <<puerto, reading_active, ret, discLocals, estado, hallado,
                 started, probes, online_rx, fallo_io, ghostLect, ventana>>

\* self.serial_connection = serial.Serial(self.puerto, ...)
AbrirOpen(t) ==
  /\ pc[t] = "abrir_open"
  /\ \/ \* serial.Serial(...) raises: return False
        /\ puerto # None
        /\ AbrirReturn(t, FALSE)
        /\ UNCHANGED <<leaked, serial_connection, in_waiting, antes>>
     \/ \* a new object is made and stored; with port None it is left unopened
        /\ serial_connection' = [obj |-> TRUE, port |-> puerto, is_open |-> puerto # None]
        /\ leaked' = IF IsOpen(serial_connection)
                       THEN Leak([port |-> serial_connection.port, kind |-> "persistent"])
                       ELSE leaked
        /\ in_waiting' = 0
        /\ antes' = SinPrevias
        /\ pc' = [pc EXCEPT ![t] = "abrir_settle"]
        /\ UNCHANGED <<connection_lock, result, elapsed, conectado,
                       indicador, fallo_reapertura, botones, lazos_extra, elimVars>>
  /\ UNCHANGED <<puerto, reading_active, ret, discLocals, estado, hallado,
                 started, probes, online_rx, fallo_io, ghostLect, ventana>>

AbrirSettle(t) ==
  /\ pc[t] = "abrir_settle"
  /\ in_waiting' = 0
  /\ antes' = SinPrevias
  /\ AbrirReturn(t, TRUE)
  /\ UNCHANGED <<leaked, serial_connection, puerto, reading_active, ret,
                 discLocals, estado, hallado, started, probes, online_rx, fallo_io,
                 ghostLect, ventana>>

(* ---------------------- cerrar_conexion_serial ------------------------- *)
\* return of cerrar_conexion_serial to its call site; reconectar goes on to
\* buscar_arduino, whose thread is followed under the same identity;
\* on_closing goes on to close the database and destroy the root window
CerrarReturn(t) ==
  pc' = [pc EXCEPT ![t] = CASE ret[t] = "reconectar" -> "encontrar"
                            [] ret[t] = "on_closing" -> "destroyed"
                            [] OTHER -> "done"]

\* variant: close() and the reset to None run whatever the connection is
CerrarCheckSiempreCierra(t) ==
  /\ pc[t] = "cerrar_check"
  /\ pc' = [pc EXCEPT ![t] = "cerrar_close"]
  /\ UNCHANGED <<connVars, connection_lock, reading_active, ret, discLocals,
                 discGhost, callVars, ventana, indicador, fallo_reapertura,
                 botones, lazos_extra, elimVars>>

\* if self.serial_connection and self.serial_connection.is_open:
CerrarCheck(t) ==
  /\ pc[t] = "cerrar_check"
  /\ IF IsOpen(serial_connection)
       THEN pc' = [pc EXCEPT ![t] = "cerrar_close"]
       ELSE CerrarReturn(t)
  /\ UNCHANGED <<connVars, connection_lock, reading_active, ret, discLocals,
                 discGhost, callVars, ventana, indicador, fallo_reapertura, botones, lazos_extra, elimVars>>

CerrarClose(t) ==
  /\ pc[t] = "cerrar_close"
  /\ IF ~serial_connection.obj
       THEN \* AttributeError, logged by the except clause
            /\ CerrarReturn(t)
            /\ UNCHANGED <<serial_connection, in_waiting, antes>>
       ELSE /\ serial_connection' = [serial_connection EXCEPT !.is_open = FALSE]
            /\ in_waiting' = 0
            /\ antes' = SinPrevias
            /\ pc' = [pc EXCEPT ![t] = "cerrar_none"]
  /\ UNCHANGED <<leaked, puerto, connection_lock, reading_active,
                 ret, discLocals, discGhost, callVars, ventana, indicador, fallo_reapertura, botones, lazos_extra, elimVars>>

CerrarNone(t) ==
  /\ pc[t] = "cerrar_none"
  /\ serial_connection' = NoConn
  /\ leaked' = IF IsOpen(serial_connection)
                 THEN Leak([port |-> serial_connection.port, kind |-> "persistent"])
                 ELSE leaked
  /\ in_waiting' = 0
  /\ antes' = SinPrevias
  /\ CerrarReturn(t)
  /\ UNCHANGED <<puerto, connection_lock, reading_active, ret, discLocals,
                 discGhost, callVars, ventana, indicador, fallo_reapertura, botones, lazos_extra, elimVars>>

(* -------------------------- reconectar_arduino ------------------------- *)
\* the operator clicks Reconectar: a new thread runs reconectar()
Reconectar(d) ==
  /\ pc[d] = "idle"
  /\ pc' = [pc EXCEPT ![d] = "cerrar_check"]
  /\ ret' = [ret EXCEPT ![d] = "reconectar"]
  /\ puertos' = [puertos EXCEPT ![d] = <<>>]
  /\ idx' = [idx EXCEPT ![d] = 0]
  /\ estado' = [estado EXCEPT ![d] = "none"]
  /\ hallado' = [hallado EXCEPT ![d] = None]
  /\ started' = [started EXCEPT ![d] = 0]
  /\ probes' = [probes EXCEPT ![d] = <<>>]
  /\ online_rx' = [online_rx EXCEPT ![d] = FALSE]
  /\ fallo_io' = [fallo_io EXCEPT ![d] = "none"]
  /\ conectado' = [conectado EXCEPT ![d] = FALSE]
  /\ indicador' = FALSE
  /\ botones' = ToggleButtons(FALSE, botones)
  /\ UNCHANGED <<connVars, connection_lock, reading_active, ser, sent,
                 listened, callVars, ventana, fallo_reapertura, lazos_extra, elimVars>>

\* the thread of buscar ends: its frame and its results are gone
Terminar(d) ==
  /\ pc[d] = "done"
  /\ pc' = [pc EXCEPT ![d] = "idle"]
  /\ ret' = [ret EXCEPT ![d] = "none"]
  /\ puertos' = [puertos EXCEPT ![d] = <<>>]
  /\ idx' = [idx EXCEPT ![d] = 0]
  /\ sent' = [sent EXCEPT ![d] = 0]
  /\ listened' = [listened EXCEPT ![d] = 0]
  /\ estado' = [estado EXCEPT ![d] = "none"]
  /\ hallado' = [hallado EXCEPT ![d] = None]
  /\ started' = [started EXCEPT ![d] = 0]
  /\ probes' = [probes EXCEPT ![d] = <<>>]
  /\ online_rx' = [online_rx EXCEPT ![d] = FALSE]
  /\ fallo_io' = [fallo_io EXCEPT ![d] = "none"]
  /\ conectado' = [conectado EXCEPT ![d] = FALSE]
  /\ UNCHANGED <<connVars, connection_lock, reading_active, ser, callVars, ventana, indicador, fallo_reapertura, botones, lazos_extra, elimVars>>

(* ------------------------ encontrar_puerto_arduino --------------------- *)
\* variant: the loop goes on to the end of the list after a success
EncontrarPasoSinParar(okv, i, n) ==
  IF i < n THEN "next" ELSE IF okv THEN "found" ELSE "not_found"

\* variant: the loop leaves out the last port of the list
EncontrarPasoCorto(okv, i, n) ==
  IF okv THEN "found" ELSE IF i + 1 < n THEN "next" ELSE "not_found"

\* variant: the first failed probe ends the run
EncontrarPasoAborta(okv, i, n) ==
  IF okv THEN "found" ELSE "not_found"

\* what the for loop does once the probe of port number i of n has returned
EncontrarPaso(okv, i, n) ==
  IF okv THEN "found" ELSE IF i < n THEN "next" ELSE "not_found"

Encontrar(d) ==
  /\ pc[d] = "encontrar"
  /\ \/ \* comports() raises: nothing catches it, the thread dies
        /\ estado' = [estado EXCEPT ![d] = "enum_error"]
        /\ pc' = [pc EXCEPT ![d] = "done"]
        /\ UNCHANGED <<puertos, idx>>
     \/ \E lst \in PortLists :
          /\ puertos' = [puertos EXCEPT ![d] = lst]
          /\ IF lst = <<>>
               THEN /\ estado' = [estado EXCEPT ![d] = "no_ports_found"]
                    /\ pc' = [pc EXCEPT ![d] = "done"]
                    /\ idx' = idx
               ELSE /\ idx' = [idx EXCEPT ![d] = 1]
                    /\ pc' = [pc EXCEPT ![d] = "healthcheck_open"]
                    /\ estado' = estado
  /\ UNCHANGED <<connVars, connection_lock, reading_active, ret, ser, sent,
                 listened, hallado, started, probes, online_rx, fallo_io, conectado,
                 callVars, ventana, indicador, fallo_reapertura, botones, lazos_extra, elimVars>>

\* variant: buscar stores the port of the last probe whatever its result
ProbeReturnGuardaPuerto(d, okv) ==
  LET paso == EncontrarPaso(okv, idx[d], Len(puertos[d])) IN
  /\ probes' = [probes EXCEPT ![d] = Append(@, okv)]
  /\ CASE paso = "found" ->
            /\ estado' = [estado EXCEPT ![d] = "found"]
            /\ hallado' = [hallado EXCEPT ![d] = puertos[d][idx[d]]]
            /\ puerto' = puertos[d][idx[d]]
            /\ pc' = [pc EXCEPT ![d] = "abrir_check"]
            /\ ret' = [ret EXCEPT ![d] = "buscar"]
            /\ idx' = idx
       [] paso = "next" ->
            /\ idx' = [idx EXCEPT ![d] = @ + 1]
            /\ pc' = [pc EXCEPT ![d] = "healthcheck_open"]
            /\ UNCHANGED <<estado, hallado, puerto, ret>>
       [] paso = "not_found" ->
            /\ estado' = [estado EXCEPT ![d] = "not_found"]
            /\ pc' = [pc EXCEPT ![d] = "done"]
            /\ puerto' = puertos[d][idx[d]]
            /\ UNCHANGED <<hallado, ret, idx>>

\* return of intentar_healthcheck_en_puerto into the for loop, and of the
\* loop into buscar, which stores the port and opens the connection
ProbeReturn(d, okv) ==
  LET paso == EncontrarPaso(okv, idx[d], Len(puertos[d])) IN
  /\ probes' = [probes EXCEPT ![d] = Append(@, okv)]
  /\ CASE paso = "found" ->
            /\ estado' = [estado EXCEPT ![d] = "found"]
            /\ hallado' = [hallado EXCEPT ![d] = puertos[d][idx[d]]]
            /\ puerto' = puertos[d][idx[d]]
            /\ pc' = [pc EXCEPT ![d] = "abrir_check"]
            /\ ret' = [ret EXCEPT ![d] = "buscar"]
            /\ idx' = idx
       [] paso = "next" ->
            /\ idx' = [idx EXCEPT ![d] = @ + 1]
            /\ pc' = [pc EXCEPT ![d] = "healthcheck_open"]
            /\ UNCHANGED <<estado, hallado, puerto, ret>>
       [] paso = "not_found" ->
            /\ estado' = [estado EXCEPT ![d] = "not_found"]
            /\ pc' = [pc EXCEPT ![d] = "done"]
            /\ UNCHANGED <<hallado, puerto, ret, idx>>

(* --------------------- intentar_healthcheck_en_puerto ------------------ *)
HealthcheckOpen(d) ==
  /\ pc[d] = "healthcheck_open"
  /\ started' = [started EXCEPT ![d] = @ + 1]
  /\ online_rx' = [online_rx EXCEPT ![d] = FALSE]
  /\ sent' = [sent EXCEPT ![d] = 0]
  /\ listened' = [listened EXCEPT ![d] = 0]
  /\ \/ \* serial.Serial(...) raises: return False
        /\ fallo_io' = [fallo_io EXCEPT ![d] = "open"]
        /\ ProbeReturn(d, FALSE)
        /\ UNCHANGED ser
     \/ \* opened; boot-settle wait; buffers discarded
        /\ fallo_io' = [fallo_io EXCEPT ![d] = "none"]
        /\ ser' = [ser EXCEPT ![d] = puertos[d][idx[d]]]
        /\ pc' = [pc EXCEPT ![d] = "healthcheck_write"]
        /\ UNCHANGED <<probes, estado, hallado, puerto, ret, idx>>
  /\ UNCHANGED <<leaked, serial_connection, in_waiting, antes, connection_lock,
                 reading_active, puertos, conectado, callVars, ventana, indicador, fallo_reapertura, botones, lazos_extra, elimVars>>

\* variant: the probe starts listening after the first payload
HealthcheckWriteUnaVez(d) ==
  /\ pc[d] = "healthcheck_write"
  /\ \/ /\ ser' = [ser EXCEPT ![d] = None]
        /\ leaked' = Leak([port |-> ser[d], kind |-> "probe"])
        /\ fallo_io' = [fallo_io EXCEPT ![d] = "write"]
        /\ ProbeReturn(d, FALSE)
        /\ UNCHANGED <<sent, listened>>
     \/ /\ sent' = [sent EXCEPT ![d] = @ + 1]
        /\ pc' = [pc EXCEPT ![d] = "healthcheck_listen"]
        /\ listened' = [listened EXCEPT ![d] = 0]
        /\ UNCHANGED <<leaked, ser, probes, estado, hallado, puerto, ret, idx,
                       fallo_io>>
  /\ UNCHANGED <<serial_connection, in_waiting, antes, connection_lock,
                 reading_active, puertos, started, online_rx, conectado,
                 callVars, ventana, indicador, fallo_reapertura, botones,
                 lazos_extra, elimVars>>

\* for i in range(HEALTHCHECK_ATTEMPTS): ser.write(payload); ser.flush()
HealthcheckWrite(d) ==
  /\ pc[d] = "healthcheck_write"
  /\ \/ \* write or flush raises: the outer except returns False; ser is
        \* dropped with the port still open
        /\ ser' = [ser EXCEPT ![d] = None]
        /\ leaked' = Leak([port |-> ser[d], kind |-> "probe"])
        /\ fallo_io' = [fallo_io EXCEPT ![d] = "write"]
        /\ ProbeReturn(d, FALSE)
        /\ UNCHANGED <<sent, listened>>
     \/ /\ sent' = [sent EXCEPT ![d] = @ + 1]
        /\ IF sent[d] + 1 = HEALTHCHECK_ATTEMPTS
             THEN /\ pc' = [pc EXCEPT ![d] = "healthcheck_listen"]
                  /\ listened' = [listened EXCEPT ![d] = 0]
             ELSE UNCHANGED <<pc, listened>>
        /\ UNCHANGED <<leaked, ser, probes, estado, hallado, puerto, ret, idx,
                       fallo_io>>
  /\ UNCHANGED <<serial_connection, in_waiting, antes, connection_lock,
                 reading_active, puertos, started, online_rx, conectado,
                 callVars, ventana, indicador, fallo_reapertura, botones, lazos_extra, elimVars>>

\* ser.close() followed by return okv
HealthcheckClose(d, okv) ==
  /\ ser' = [ser EXCEPT ![d] = None]
  /\ ProbeReturn(d, okv)

HealthcheckListen(d) ==
  /\ pc[d] = "healthcheck_listen"
  /\ IF listened[d] < ListenSlices
       THEN \/ \* readline raises: except, continue
               /\ listened' = [listened EXCEPT ![d] = @ + 1]
               /\ fallo_io' = [fallo_io EXCEPT ![d] = "read"]
               /\ UNCHANGED <<ser, probes, estado, hallado, puerto,
                              pc, ret, idx, online_rx>>
            \/ \E raw \in Lines :
                 /\ fallo_io' = IF ProbeAccepts(raw)
                                  THEN [fallo_io EXCEPT ![d] = "none"]
                                  ELSE fallo_io
                 /\ online_rx' = [online_rx EXCEPT ![d] =
                                    @ \/ IsOnline(JsonLoads(raw))]
                 /\ IF ProbeAccepts(raw)
                      THEN /\ HealthcheckClose(d, TRUE)
                           /\ UNCHANGED listened
                      ELSE /\ listened' = [listened EXCEPT ![d] = @ + 1]
                           /\ UNCHANGED <<ser, probes, estado, hallado,
                                          puerto, pc, ret, idx>>
       ELSE \* the window is over
            /\ HealthcheckClose(d, FALSE)
            /\ UNCHANGED <<listened, online_rx, fallo_io>>
  /\ UNCHANGED <<leaked, serial_connection, in_waiting, antes, connection_lock,
                 reading_active, puertos, sent, started, conectado, callVars, ventana, indicador, fallo_reapertura, botones, lazos_extra, elimVars>>

(* ------------------------------- leer_uid ------------------------------ *)
\* the operator asks a RegistroWindow or EliminacionWindow to read a card:
\* a new thread calls leer_uid
LeerTarjeta(t) ==
  /\ t \in OneShot
  /\ pc[t] \in {"idle", "done"}
  /\ pc' = [pc EXCEPT ![t] = "leer_lock"]
  /\ result' = [result EXCEPT ![t] = NoResult]
  /\ rx_uid' = [rx_uid EXCEPT ![t] = NoUid]
  /\ leidas' = [leidas EXCEPT ![t] = 0]
  /\ mal_json' = [mal_json EXCEPT ![t] = FALSE]
  /\ sano' = [sano EXCEPT ![t] = TRUE]
  /\ antes' = [antes EXCEPT ![t] = in_waiting]
  /\ UNCHANGED <<leaked, serial_connection, puerto, in_waiting,
                 connection_lock, reading_active, ret, discLocals,
                 discGhost, elapsed, skipped_uid, ventana, indicador, fallo_reapertura, botones, lazos_extra, elimVars>>

\* variant: the body is entered without waiting for the lock
LeerLockSinEspera(t) ==
  /\ pc[t] = "leer_lock"
  /\ connection_lock' = t
  /\ pc' = [pc EXCEPT ![t] = "leer_check"]
  /\ result' = [result EXCEPT ![t] = NoResult]
  /\ rx_uid' = [rx_uid EXCEPT ![t] = NoUid]
  /\ skipped_uid' = [skipped_uid EXCEPT ![t] = FALSE]
  /\ leidas' = [leidas EXCEPT ![t] = 0]
  /\ mal_json' = [mal_json EXCEPT ![t] = FALSE]
  /\ sano' = [sano EXCEPT ![t] = TRUE]
  /\ elapsed' = [elapsed EXCEPT ![t] = 0]
  /\ ret' = [ret EXCEPT ![t] = "none"]
  /\ UNCHANGED <<connVars, reading_active, discLocals, discGhost, ventana,
                 indicador, fallo_reapertura, botones, lazos_extra, elimVars>>

\* with self.connection_lock:
LeerLock(t) ==
  /\ pc[t] = "leer_lock"
  /\ connection_lock = None
  /\ connection_lock' = t
  /\ pc' = [pc EXCEPT ![t] = "leer_check"]
  /\ result' = [result EXCEPT ![t] = NoResult]
  /\ rx_uid' = [rx_uid EXCEPT ![t] = NoUid]
  /\ skipped_uid' = [skipped_uid EXCEPT ![t] = FALSE]
  /\ leidas' = [leidas EXCEPT ![t] = 0]
  /\ mal_json' = [mal_json EXCEPT ![t] = FALSE]
  /\ sano' = [sano EXCEPT ![t] = TRUE]
  /\ elapsed' = [elapsed EXCEPT ![t] = 0]
  /\ ret' = [ret EXCEPT ![t] = "none"]
  /\ UNCHANGED <<connVars, reading_active, discLocals, discGhost, ventana,
                 indicador, fallo_reapertura, botones, lazos_extra, elimVars>>

\* variant: leer_uid gives up when it finds the connection not open
LeerCheckSinReabrir(t) ==
  /\ pc[t] = "leer_check"
  /\ IF IsOpen(serial_connection)
       THEN /\ pc' = [pc EXCEPT ![t] = "leer_reset"]
            /\ UNCHANGED <<connection_lock, elapsed, result, sano>>
       ELSE /\ LeerExit(t, [kind |-> "no_connection", uid |-> ""])
            /\ sano' = [sano EXCEPT ![t] = FALSE]
  /\ UNCHANGED <<connVars, reading_active, ret, discLocals, discGhost,
                 rx_uid, skipped_uid, leidas, mal_json, ventana, indicador,
                 fallo_reapertura, botones, lazos_extra, elimVars>>

\* variant: leer_uid opens the connection anew at the head of every call
LeerCheckSiempreAbre(t) ==
  /\ pc[t] = "leer_check"
  /\ pc' = [pc EXCEPT ![t] = "abrir_check"]
  /\ ret' = [ret EXCEPT ![t] = "leer_uid_pre"]
  /\ sano' = [sano EXCEPT ![t] = IsOpen(serial_connection) /\ sano[t]]
  /\ UNCHANGED <<connVars, connection_lock, reading_active, discLocals,
                 discGhost, elapsed, result, rx_uid, skipped_uid, leidas,
                 mal_json, ventana, indicador, fallo_reapertura, botones, lazos_extra, elimVars>>

\* if not self.serial_connection or not self.serial_connection.is_open:
\* open it before reading
LeerCheck(t) ==
  /\ pc[t] = "leer_check"
  /\ IF IsOpen(serial_connection)
       THEN /\ pc' = [pc EXCEPT ![t] = "leer_reset"]
            /\ UNCHANGED <<ret, sano>>
       ELSE /\ pc' = [pc EXCEPT ![t] = "abrir_check"]
            /\ ret' = [ret EXCEPT ![t] = "leer_uid_pre"]
            /\ sano' = [sano EXCEPT ![t] = FALSE]
  /\ UNCHANGED <<connVars, connection_lock, reading_active, discLocals,
                 discGhost, elapsed, result, rx_uid, skipped_uid, leidas, mal_json, ventana, indicador, fallo_reapertura, botones, lazos_extra, elimVars>>

\* variant: the call starts polling on the buffer as it finds it
LeerResetSinDescartar(t) ==
  /\ pc[t] = "leer_reset"
  /\ elapsed' = [elapsed EXCEPT ![t] = 0]
  /\ pc' = [pc EXCEPT ![t] = "leer_poll"]
  /\ sano' = [sano EXCEPT ![t] = @ /\ IsOpen(serial_connection)]
  /\ UNCHANGED <<connVars, connection_lock, reading_active, ret, discLocals,
                 discGhost, result, rx_uid, skipped_uid, leidas, mal_json,
                 ventana, indicador, fallo_reapertura, botones, lazos_extra,
                 elimVars>>

\* reset_input_buffer() (any error is swallowed: the connection was closed
\* or cleared by another thread meanwhile); start = time.time()
LeerReset(t) ==
  /\ pc[t] = "leer_reset"
  /\ in_waiting' = 0
  /\ antes' = SinPrevias
  /\ elapsed' = [elapsed EXCEPT ![t] = 0]
  /\ pc' = [pc EXCEPT ![t] = "leer_poll"]
  /\ sano' = [sano EXCEPT ![t] = @ /\ IsOpen(serial_connection)]
  /\ UNCHANGED <<leaked, serial_connection, puerto, connection_lock,
                 reading_active, ret, discLocals, discGhost, result, rx_uid,
                 skipped_uid, leidas, mal_json, ventana, indicador,
                 fallo_reapertura, botones, lazos_extra, elimVars>>

\* the except clause for a device/port loss: reopen
LeerReconectar(t) ==
  /\ pc' = [pc EXCEPT ![t] = "abrir_check"]
  /\ ret' = [ret EXCEPT ![t] = "leer_uid_rec"]
  /\ elapsed' = [elapsed EXCEPT ![t] = @ + 1]
  /\ sano' = [sano EXCEPT ![t] = FALSE]
  /\ UNCHANGED <<in_waiting, antes, connection_lock, result, rx_uid, skipped_uid, leidas, mal_json>>

\* variant: the clock of the polling loop stands still
LeerSigueSinReloj(t) ==
  UNCHANGED <<elapsed, pc, ret, connection_lock, result>>

\* the loop goes round without returning
LeerSigue(t) ==
  /\ elapsed' = [elapsed EXCEPT ![t] = @ + 1]
  /\ UNCHANGED <<pc, ret, connection_lock, result>>

\* variant: a line that json.loads rejects is answered by a reopen
LeerPollDecodeReabre(t) ==
  /\ pc[t] = "leer_poll"
  /\ IF elapsed[t] >= ReadSlices
       THEN /\ LeerExit(t, [kind |-> "timeout", uid |-> ""])
            /\ UNCHANGED <<in_waiting, antes, ret, ghostLect>>
       ELSE IF ~serial_connection.obj
       THEN \* AttributeError: neither "device" nor "port" in its text
            /\ LeerSigue(t)
            /\ sano' = [sano EXCEPT ![t] = FALSE]
            /\ UNCHANGED <<in_waiting, antes, rx_uid, skipped_uid, leidas, mal_json>>
       ELSE IF ~serial_connection.is_open
       THEN \* "Attempting to use a port that is not open"
            LeerReconectar(t)
       ELSE \/ \* I/O error whose text names the device or the port
               LeerReconectar(t)
            \/ \* any other I/O error
               /\ LeerSigue(t)
               /\ sano' = [sano EXCEPT ![t] = FALSE]
               /\ UNCHANGED <<in_waiting, antes, rx_uid, skipped_uid, leidas, mal_json>>
            \/ \* nothing waiting: sleep
               /\ in_waiting = 0
               /\ LeerSigue(t)
               /\ UNCHANGED <<in_waiting, antes, ghostLect>>
            \/ \* readline
               /\ in_waiting > 0
               /\ in_waiting' = in_waiting - 1
               /\ antes' = TrasLeer
               /\ leidas' = [leidas EXCEPT ![t] = @ + 1]
               /\ sano' = sano
               /\ \E raw \in Lines :
                    /\ rx_uid' = [rx_uid EXCEPT ![t] = UidField(raw)]
                    /\ mal_json' = [mal_json EXCEPT ![t] = @ \/ DecodeFails(raw)]
                    /\ IF DecodeFails(raw)
                         THEN /\ pc' = [pc EXCEPT ![t] = "abrir_check"]
                              /\ ret' = [ret EXCEPT ![t] = "leer_uid_rec"]
                              /\ elapsed' = [elapsed EXCEPT ![t] = @ + 1]
                              /\ UNCHANGED <<connection_lock, result, skipped_uid>>
                         ELSE IF UidStep(raw).act = "return"
                         THEN /\ LeerExit(t, [kind |-> "uid", uid |-> UidStep(raw).uid])
                              /\ UNCHANGED <<ret, skipped_uid>>
                         ELSE /\ LeerSigue(t)
                              /\ skipped_uid' = [skipped_uid EXCEPT ![t] =
                                                   @ \/ UidField(raw) # NoUid]
  /\ UNCHANGED <<leaked, serial_connection, puerto, reading_active,
                 discLocals, discGhost, ventana, indicador, fallo_reapertura, botones, lazos_extra, elimVars>>

\* one evaluation of the while condition and one pass through the loop body
LeerPoll(t) ==
  /\ pc[t] = "leer_poll"
  /\ IF elapsed[t] >= ReadSlices
       THEN /\ LeerExit(t, [kind |-> "timeout", uid |-> ""])
            /\ UNCHANGED <<in_waiting, antes, ret, ghostLect>>
       ELSE IF ~serial_connection.obj
       THEN \* AttributeError: neither "device" nor "port" in its text
            /\ LeerSigue(t)
            /\ sano' = [sano EXCEPT ![t] = FALSE]
            /\ UNCHANGED <<in_waiting, antes, rx_uid, skipped_uid, leidas, mal_json>>
       ELSE IF ~serial_connection.is_open
       THEN \* "Attempting to use a port that is not open"
            LeerReconectar(t)
       ELSE \/ \* I/O error whose text names the device or the port
               LeerReconectar(t)
            \/ \* any other I/O error
               /\ LeerSigue(t)
               /\ sano' = [sano EXCEPT ![t] = FALSE]
               /\ UNCHANGED <<in_waiting, antes, rx_uid, skipped_uid, leidas, mal_json>>
            \/ \* nothing waiting: sleep
               /\ in_waiting = 0
               /\ LeerSigue(t)
               /\ UNCHANGED <<in_waiting, antes, ghostLect>>
            \/ \* readline
               /\ in_waiting > 0
               /\ in_waiting' = in_waiting - 1
               /\ antes' = TrasLeer
               /\ leidas' = [leidas EXCEPT ![t] = @ + 1]
               /\ sano' = sano
               /\ \E raw \in Lines :
                    /\ rx_uid' = [rx_uid EXCEPT ![t] = UidField(raw)]
                    /\ mal_json' = [mal_json EXCEPT ![t] = @ \/ DecodeFails(raw)]
                    /\ IF UidStep(raw).act = "return"
                         THEN /\ LeerExit(t, [kind |-> "uid", uid |-> UidStep(raw).uid])
                              /\ UNCHANGED <<ret, skipped_uid>>
                         ELSE /\ LeerSigue(t)
                              /\ skipped_uid' = [skipped_uid EXCEPT ![t] =
                                                   @ \/ UidField(raw) # NoUid]
  /\ UNCHANGED <<leaked, serial_connection, puerto, reading_active,
                 discLocals, discGhost, ventana, indicador, fallo_reapertura, botones, lazos_extra, elimVars>>

(* ---------------------- ConsultaWindow: read_loop ---------------------- *)
\* ConsultaWindow.__init__: reading_active = True, start_automatic_reading().
\* reading_active is the flag of the window that is open; the read_loop of a
\* window closed before has seen its own flag False and ended.
AbrirConsulta(t) ==
  /\ t \in Loops
  /\ ~ventana
  /\ \A u \in Loops : pc[u] = "idle"
  /\ lazos_extra = 0
  /\ ventana' = TRUE
  /\ reading_active' = TRUE
  /\ pc' = [pc EXCEPT ![t] = "read_loop"]
  /\ UNCHANGED <<connVars, connection_lock, ret, discLocals, discGhost, callVars,
                 indicador, fallo_reapertura, botones, lazos_extra, elimVars>>

\* toggle_reading: pause, or resume with a new read_loop thread; the new
\* thread is followed in pc when a thread of Loops is free and is counted in
\* lazos_extra otherwise
ToggleReading ==
  /\ ventana
  /\ reading_active' = ~reading_active
  /\ IF reading_active
       THEN UNCHANGED <<pc, lazos_extra, elimVars>>
       ELSE \/ \E t \in Loops : /\ pc[t] = "idle"
                                /\ pc' = [pc EXCEPT ![t] = "read_loop"]
                                /\ UNCHANGED lazos_extra
            \/ /\ \A t \in Loops : pc[t] # "idle"
               /\ lazos_extra < MaxExtra
               /\ lazos_extra' = lazos_extra + 1
               /\ pc' = pc
  /\ UNCHANGED <<connVars, connection_lock, ret, discLocals, discGhost,
                 callVars, ventana, indicador, fallo_reapertura, botones, elimVars>>

\* a read_loop thread that is only counted reaches its while test with
\* reading_active False, or finds the root window gone, and ends
ReadLoopExtra ==
  /\ lazos_extra > 0
  /\ ~reading_active \/ pc[Gui] = "destroyed"
  /\ lazos_extra' = lazos_extra - 1
  /\ UNCHANGED <<connVars, connection_lock, reading_active, pc, ret,
                 discLocals, discGhost, callVars, ventana, indicador,
                 fallo_reapertura, botones, elimVars>>

\* on_close: reading_active = False, the window is destroyed
CerrarConsulta ==
  /\ ventana
  /\ reading_active' = FALSE
  /\ ventana' = FALSE
  /\ UNCHANGED <<connVars, connection_lock, pc, ret, discLocals, discGhost, callVars,
                 indicador, fallo_reapertura, botones, lazos_extra, elimVars>>

\* while self.reading_active: (and the window still exists; once the root
\* window is destroyed winfo_exists and root.after fail and the thread ends)
ReadLoop(t) ==
  /\ pc[t] = "read_loop"
  /\ pc' = [pc EXCEPT ![t] = IF reading_active /\ pc[Gui] # "destroyed"
                                THEN "read_loop_check" ELSE "idle"]
  /\ UNCHANGED <<connVars, connection_lock, reading_active, ret, discLocals,
                 discGhost, callVars, ventana, indicador, fallo_reapertura, botones, lazos_extra, elimVars>>

\* the connection test before every read
ReadLoopCheck(t) ==
  /\ pc[t] = "read_loop_check"
  /\ IF pc[Gui] = "destroyed"
       THEN \* root.after raises, and again in the handler: the thread ends
            /\ pc' = [pc EXCEPT ![t] = "idle"]
            /\ UNCHANGED <<ret, antes>>
       ELSE IF IsOpen(serial_connection)
       THEN \* uid = self.parent.leer_uid(timeout_global=0.5)
            /\ pc' = [pc EXCEPT ![t] = "leer_lock"]
            /\ antes' = [antes EXCEPT ![t] = in_waiting]
            /\ ret' = ret
       ELSE /\ pc' = [pc EXCEPT ![t] = "abrir_check"]
            /\ ret' = [ret EXCEPT ![t] = "read_loop"]
            /\ antes' = antes
  /\ UNCHANGED <<leaked, serial_connection, puerto, in_waiting, connection_lock, reading_active, discLocals,
                 discGhost, callVars, ventana, indicador, fallo_reapertura, botones, lazos_extra, elimVars>>

\* variant: the handlers of read_loop do not look at reading_active
ReadLoopHandlerSinBandera(res, activo) ==
  CASE res.kind = "uid" -> IF res.uid # "" THEN "read_loop_procesar"
                                          ELSE "read_loop_pausa"
    [] res.kind = "timeout" -> "read_loop"
    [] OTHER -> "read_loop_error"

\* variant: TimeoutError is handled like every other exception
ReadLoopHandlerEstricto(res, activo) ==
  CASE res.kind = "uid" -> IF res.uid # "" /\ activo THEN "read_loop_procesar"
                                                     ELSE "read_loop_pausa"
    [] OTHER -> IF activo THEN "read_loop_error" ELSE "read_loop_pausa"

\* which handler of read_loop takes the outcome of leer_uid
ReadLoopHandler(res, activo) ==
  CASE res.kind = "uid" -> IF res.uid # "" /\ activo THEN "read_loop_procesar"
                                                     ELSE "read_loop_pausa"
    [] res.kind = "timeout" -> "read_loop"
    [] OTHER -> IF activo THEN "read_loop_error" ELSE "read_loop_pausa"

ReadLoopResult(t) ==
  /\ pc[t] = "read_loop_result"
  /\ pc' = [pc EXCEPT ![t] = ReadLoopHandler(result[t], reading_active)]
  /\ result' = [result EXCEPT ![t] = NoResult]
  /\ rx_uid' = [rx_uid EXCEPT ![t] = NoUid]
  /\ leidas' = [leidas EXCEPT ![t] = 0]
  /\ mal_json' = [mal_json EXCEPT ![t] = FALSE]
  /\ sano' = [sano EXCEPT ![t] = TRUE]
  /\ UNCHANGED <<connVars, connection_lock, reading_active, ret, discLocals,
                 discGhost, elapsed, skipped_uid, ventana, indicador, fallo_reapertura, botones, lazos_extra, elimVars>>

\* process_card and the 2 s pause, or the error status and the 1 s pause,
\* then the 0.1 s pause that ends the iteration
ReadLoopPausa(t) ==
  /\ pc[t] \in {"read_loop_procesar", "read_loop_error", "read_loop_pausa"}
  /\ pc' = [pc EXCEPT ![t] = "read_loop"]
  /\ UNCHANGED <<connVars, connection_lock, reading_active, ret, discLocals,
                 discGhost, callVars, ventana, indicador, fallo_reapertura, botones, lazos_extra, elimVars>>

(* --------------------------- EliminacionWindow ------------------------- *)
\* abrir_eliminacion: the window is made with no student identified and the
\* ELIMINAR button disabled
AbrirEliminacion ==
  /\ ~eliminacion
  /\ \A t \in OneShot : pc[t] \in {"idle", "done"}
  /\ eliminacion' = TRUE
  /\ uid_eliminar' = Nadie
  /\ alumno_info' = Nadie
  /\ btn_eliminar' = FALSE
  /\ ultima_lectura' = NoResult
  /\ pc' = [t \in Threads |-> IF t \in OneShot THEN "idle" ELSE pc[t]]
  /\ UNCHANGED <<connVars, connection_lock, reading_active, ret, discLocals,
                 discGhost, callVars, ventana, indicador, fallo_reapertura,
                 botones, lazos_extra, alumnos>>

\* leer_tarjeta: 'Leer Tarjeta' is clicked, the thread of leer calls
\* leer_uid; the button stays disabled until that thread has finished
EliminacionLeer(t) ==
  /\ eliminacion
  /\ pc[t] = "idle"
  /\ LeerTarjeta(t)

\* leer, after leer_uid: the row of the uid is looked up; a registered uid is
\* stored and enables ELIMINAR, every other outcome only changes the status
\* line and enables 'Leer Tarjeta' again
EliminacionResultado(t) ==
  /\ eliminacion
  /\ t \in OneShot
  /\ pc[t] = "done"
  /\ pc' = [pc EXCEPT ![t] = "idle"]
  /\ IF result[t].kind = "uid" /\ result[t].uid \in alumnos
       THEN /\ uid_eliminar' = result[t].uid
            /\ alumno_info' = result[t].uid
            /\ btn_eliminar' = TRUE
            /\ ultima_lectura' = [kind |-> "registrada", uid |-> result[t].uid]
       ELSE /\ UNCHANGED <<uid_eliminar, alumno_info, btn_eliminar>>
            /\ ultima_lectura' =
                 IF result[t].kind = "uid"
                   THEN [kind |-> "no_registrada", uid |-> result[t].uid]
                   ELSE [kind |-> result[t].kind, uid |-> ""]
  /\ UNCHANGED <<connVars, connection_lock, reading_active, ret, discLocals,
                 discGhost, callVars, ventana, indicador, fallo_reapertura,
                 botones, lazos_extra, alumnos, eliminacion>>

\* confirmar_eliminacion: ELIMINAR is clicked; with a student stored and the
\* question answered yes, the row of uid_eliminar is deleted and the window
\* is destroyed, unless the DELETE raises
ConfirmarEliminacion ==
  /\ eliminacion
  /\ btn_eliminar
  /\ alumno_info # Nadie /\ uid_eliminar # Nadie /\ uid_eliminar # ""
  /\ \E respuesta \in BOOLEAN :
       \/ /\ respuesta
          /\ alumnos' = alumnos \ {uid_eliminar}
          /\ eliminacion' = FALSE
          /\ uid_eliminar' = Nadie
          /\ alumno_info' = Nadie
          /\ btn_eliminar' = FALSE
          /\ ultima_lectura' = NoResult
       \/ \* "no", or the DELETE raises and the error is shown
          /\ UNCHANGED elimVars
  /\ UNCHANGED <<connVars, connection_lock, reading_active, pc, ret,
                 discLocals, discGhost, callVars, ventana, indicador,
                 fallo_reapertura, botones, lazos_extra>>

\* 'Cancelar': the window is destroyed
CancelarEliminacion ==
  /\ eliminacion
  /\ \A t \in OneShot : pc[t] = "idle"
  /\ eliminacion' = FALSE
  /\ uid_eliminar' = Nadie
  /\ alumno_info' = Nadie
  /\ btn_eliminar' = FALSE
  /\ ultima_lectura' = NoResult
  /\ UNCHANGED <<connVars, connection_lock, reading_active, pc, ret,
                 discLocals, discGhost, callVars, ventana, indicador,
                 fallo_reapertura, botones, lazos_extra, alumnos>>

(* ------------------------------ on_closing ----------------------------- *)
\* the operator closes the main window: on_closing runs on the main loop and
\* calls cerrar_conexion_serial
OnClosing ==
  /\ pc[Gui] = "idle"
  /\ pc' = [pc EXCEPT ![Gui] = "cerrar_check"]
  /\ ret' = [ret EXCEPT ![Gui] = "on_closing"]
  /\ UNCHANGED <<connVars, connection_lock, reading_active, discLocals,
                 discGhost, callVars, ventana, indicador, fallo_reapertura, botones, lazos_extra, elimVars>>

(* ----------------------------- environment ----------------------------- *)
\* the reader sends a line on the persistent port
DeviceSend ==
  /\ IsOpen(serial_connection)
  /\ in_waiting < MaxBuf
  /\ in_waiting' = in_waiting + 1
  /\ antes' = antes
  /\ UNCHANGED <<leaked, serial_connection, puerto, connection_lock,
                 reading_active, pc, ret, discLocals, discGhost, callVars,
                 ventana, indicador, fallo_reapertura, botones, lazos_extra, elimVars>>

\* an open object nothing refers to any more is finalized, which closes it
Finalize(l) ==
  /\ l \in leaked
  /\ leaked' = leaked \ {l}
  /\ UNCHANGED <<serial_connection, puerto, in_waiting, antes, connection_lock,
                 reading_active, pc, ret, discLocals, discGhost, callVars,
                 ventana, indicador, fallo_reapertura, botones, lazos_extra, elimVars>>

(* ---------------------------- specification ---------------------------- *)
\* the steps of the discovery threads
PasoDescubrimiento ==
  \/ \E d \in Disc : Reconectar(d)
  \/ \E d \in Disc : Encontrar(d)
  \/ \E d \in Disc : HealthcheckOpen(d)
  \/ \E d \in Disc : HealthcheckWrite(d)
  \/ \E d \in Disc : HealthcheckListen(d)
  \/ \E d \in Disc : CerrarCheck(d)
  \/ \E d \in Disc : CerrarClose(d)
  \/ \E d \in Disc : CerrarNone(d)
  \/ \E d \in Disc : Terminar(d)

\* the steps of abrir_conexion_serial, whoever calls it
PasoAbrir ==
  \/ \E t \in Threads : AbrirCheck(t)
  \/ \E t \in Threads : AbrirClose(t)
  \/ \E t \in Threads : AbrirOpen(t)
  \/ \E t \in Threads : AbrirSettle(t)

\* the steps of the threads that read cards, and of the operator on them
PasoLectura ==
  \/ \E t \in OneShot : LeerTarjeta(t)
  \/ \E t \in Callers : LeerLock(t)
  \/ \E t \in Callers : LeerCheck(t)
  \/ \E t \in Callers : LeerReset(t)
  \/ \E t \in Callers : LeerPoll(t)
  \/ \E t \in Loops : AbrirConsulta(t)
  \/ ToggleReading
  \/ CerrarConsulta
  \/ \E t \in Loops : ReadLoop(t)
  \/ \E t \in Loops : ReadLoopCheck(t)
  \/ \E t \in Loops : ReadLoopResult(t)
  \/ \E t \in Loops : ReadLoopPausa(t)
  \/ ReadLoopExtra
  \/ DeviceSend

\* the steps of the main loop in on_closing
PasoCierre ==
  \/ OnClosing
  \/ CerrarCheck(Gui)
  \/ CerrarClose(Gui)
  \/ CerrarNone(Gui)

\* the steps of an EliminacionWindow and of its reading thread
PasoEliminacion ==
  \/ AbrirEliminacion
  \/ \E t \in OneShot : EliminacionLeer(t)
  \/ \E t \in OneShot : EliminacionResultado(t)
  \/ ConfirmarEliminacion
  \/ CancelarEliminacion

Next ==
  \/ PasoDescubrimiento
  \/ PasoAbrir
  \/ PasoLectura
  \/ PasoCierre
  \/ PasoEliminacion
  \/ \E l \in leaked : Finalize(l)

\* the whole system
Spec == Init /\ [][Next]_vars

\* the system while no window reads cards: discovery at startup and on Reconectar
NextDescubrimiento ==
  \/ PasoDescubrimiento
  \/ PasoAbrir
  \/ \E l \in leaked : Finalize(l)

SpecDescubrimiento == Init /\ [][NextDescubrimiento]_vars

\* the steps of one discovery thread from the enumeration of the ports to the
\* return of encontrar_puerto_arduino; each is bounded by a timeout of the
\* port (open, write_timeout, read timeout, listen window), so a thread that
\* is scheduled takes them
PasoSonda(d) ==
  \/ Encontrar(d)
  \/ HealthcheckOpen(d)
  \/ HealthcheckWrite(d)
  \/ HealthcheckListen(d)

SpecDescubrimientoJusto ==
  SpecDescubrimiento /\ \A d \in Disc : WF_vars(PasoSonda(d))

\* the states in which every discovery thread has ended: no port was found,
\* or one was found and the connection could or could not be opened on it
InitLectura ==
  /\ leaked = {}
  /\ \/ /\ puerto \in Ports \cup {None}
        /\ serial_connection = NoConn
     \/ /\ puerto \in Ports
        /\ serial_connection = [obj |-> TRUE, port |-> puerto, is_open |-> TRUE]
  /\ connection_lock = None
  /\ in_waiting = 0
  /\ reading_active = FALSE
  /\ pc = [t \in Threads |-> "idle"]
  /\ ret = [t \in Threads |-> "none"]
  /\ puertos = [d \in Disc |-> <<>>]
  /\ idx = [d \in Disc |-> 0]
  /\ ser = [d \in Disc |-> None]
  /\ sent = [d \in Disc |-> 0]
  /\ listened = [d \in Disc |-> 0]
  /\ estado = [d \in Disc |-> "none"]
  /\ hallado = [d \in Disc |-> None]
  /\ started = [d \in Disc |-> 0]
  /\ probes = [d \in Disc |-> <<>>]
  /\ online_rx = [d \in Disc |-> FALSE]
  /\ fallo_io = [d \in Disc |-> "none"]
  /\ conectado = [d \in Disc |-> FALSE]
  /\ elapsed = [c \in Callers |-> 0]
  /\ result = [c \in Callers |-> NoResult]
  /\ rx_uid = [c \in Callers |-> NoUid]
  /\ skipped_uid = [c \in Callers |-> FALSE]
  /\ leidas = [c \in Callers |-> 0]
  /\ sano = [c \in Callers |-> TRUE]
  /\ mal_json = [c \in Callers |-> FALSE]
  /\ ventana = FALSE
  /\ indicador = IsOpen(serial_connection)
  /\ fallo_reapertura = FALSE
  /\ botones = TRUE
  /\ lazos_extra = 0
  /\ antes = [c \in Callers |-> 0]
  /\ alumnos = {"04A1B2C3"}
  /\ uid_eliminar = Nadie
  /\ alumno_info = Nadie
  /\ btn_eliminar = FALSE
  /\ eliminacion = FALSE
  /\ ultima_lectura = NoResult

\* the system once discovery has ended and while Reconectar is not used:
\* the reading windows
NextLectura ==
  \/ PasoAbrir
  \/ PasoLectura
  \/ \E l \in leaked : Finalize(l)

SpecLectura == InitLectura /\ [][NextLectura]_vars

\* the steps of one reader thread: each is bounded by a timeout (the open,
\* the 2 s settle, timeout_global, the pauses of read_loop), so a thread that
\* is scheduled takes them; the lock is handed to a waiting thread when other
\* readers keep taking and releasing it
PasoLector(t) ==
  \/ AbrirCheck(t)
  \/ AbrirClose(t)
  \/ AbrirOpen(t)
  \/ AbrirSettle(t)
  \/ LeerLock(t)
  \/ LeerCheck(t)
  \/ LeerReset(t)
  \/ LeerPoll(t)
  \/ ReadLoop(t)
  \/ ReadLoopCheck(t)
  \/ ReadLoopResult(t)
  \/ ReadLoopPausa(t)

SpecLecturaJusto ==
  SpecLectura /\ \A t \in Callers : WF_vars(PasoLector(t)) /\ SF_vars(LeerLock(t))

\* one discovery thread (startup, then Reconectar) together with one reader
\* thread of a RegistroWindow or EliminacionWindow
NextCiclo ==
  \/ Reconectar(1)
  \/ Encontrar(1)
  \/ HealthcheckOpen(1)
  \/ HealthcheckWrite(1)
  \/ HealthcheckListen(1)
  \/ CerrarCheck(1)
  \/ CerrarClose(1)
  \/ CerrarNone(1)
  \/ Terminar(1)
  \/ PasoAbrir
  \/ \E t \in OneShot : LeerTarjeta(t)
  \/ \E t \in OneShot : LeerLock(t)
  \/ \E t \in OneShot : LeerCheck(t)
  \/ \E t \in OneShot : LeerReset(t)
  \/ \E t \in OneShot : LeerPoll(t)
  \/ DeviceSend
  \/ \E l \in leaked : Finalize(l)

SpecCiclo == Init /\ [][NextCiclo]_vars

\* the same with a discovery thread and reader threads that are scheduled;
\* Reconectar and the start of a read are left to the operator. A reader
\* blocked on connection_lock is woken when the holder leaves leer_uid, and
\* the holder's thread ends there: the lock is taken again only by a thread
\* a later click starts, so the blocked reader gets it
SpecCicloJusto ==
  /\ SpecCiclo
  /\ WF_vars(PasoSonda(1))
  /\ \A t \in OneShot : WF_vars(PasoLector(t)) /\ SF_vars(LeerLock(t))

\* the continuous reading of a ConsultaWindow and the shutdown of the
\* application by the main loop
NextCierre ==
  \/ PasoAbrir
  \/ \E t \in Loops : LeerLock(t)
  \/ \E t \in Loops : LeerCheck(t)
  \/ \E t \in Loops : LeerReset(t)
  \/ \E t \in Loops : LeerPoll(t)
  \/ \E t \in Loops : AbrirConsulta(t)
  \/ ToggleReading
  \/ CerrarConsulta
  \/ \E t \in Loops : ReadLoop(t)
  \/ \E t \in Loops : ReadLoopCheck(t)
  \/ \E t \in Loops : ReadLoopResult(t)
  \/ \E t \in Loops : ReadLoopPausa(t)
  \/ ReadLoopExtra
  \/ DeviceSend
  \/ PasoCierre
  \/ \E l \in leaked : Finalize(l)

SpecCierre == InitLectura /\ [][NextCierre]_vars

\* the same with a read_loop thread that is scheduled; no other thread takes
\* the lock here, so weak fairness is enough
SpecCierreJusto ==
  SpecCierre /\ \A t \in Loops : WF_vars(PasoLector(t))

\* the deletion of a card: an EliminacionWindow on a system whose discovery
\* has ended, its reading thread and the reader
NextEliminacion ==
  \/ PasoEliminacion
  \/ PasoAbrir
  \/ \E t \in OneShot : LeerLock(t)
  \/ \E t \in OneShot : LeerCheck(t)
  \/ \E t \in OneShot : LeerReset(t)
  \/ \E t \in OneShot : LeerPoll(t)
  \/ DeviceSend

SpecEliminacion == InitLectura /\ [][NextEliminacion]_vars

(* ------------------------ positions in the code ----------------------- *)
\* thread t is inside abrir_conexion_serial
EnAbrir(t) == pc[t] \in {"abrir_check", "abrir_close", "abrir_open", "abrir_settle"}

\* thread t is inside cerrar_conexion_serial
EnCerrar(t) == pc[t] \in {"cerrar_check", "cerrar_close", "cerrar_none"}

\* thread t is inside the with-block of leer_uid
EnCuerpoLeerUid(t) ==
  \/ pc[t] \in {"leer_check", "leer_reset", "leer_poll"}
  \/ EnAbrir(t) /\ ret[t] \in {"leer_uid_pre", "leer_uid_rec"}

\* the last probe of thread d returned False and no probe has begun since
SondaFallida(d) ==
  /\ probes[d] # <<>>
  /\ ~probes[d][Len(probes[d])]
  /\ pc[d] \in {"healthcheck_open", "done"}

\* the step at which a probe that returned False gave up: the open, a write,
\* or the end of the listen window
Causa(d) ==
  CASE fallo_io[d] = "open" -> "open_failure"
    [] fallo_io[d] = "write" -> "write_failure"
    [] OTHER -> "no_response"

\* the read_loop threads of the ConsultaWindow that have not ended
LazosVivos == Cardinality({t \in Loops : pc[t] # "idle"}) + lazos_extra

\* thread t is inside a call of leer_uid, waiting for the lock included
EnLeerUid(t) == pc[t] = "leer_lock" \/ EnCuerpoLeerUid(t)

\* thread d is inside intentar_healthcheck_en_puerto with the port open
Sondeando(d) == pc[d] \in {"healthcheck_write", "healthcheck_listen"}

\* the result of the probe that returned last in the run of d
UltimaSonda(d) == probes[d][Len(probes[d])]

(* ------------------------------ properties ----------------------------- *)
\* C1 (as stated): in every reachable state at most one persistent serial
\* handle is open, referenced by self.serial_connection or not.
C1_UnSoloManejador == OpenPersistent <= 1

\* C2: at most one thread is inside the body of leer_uid at any instant, and
\* that thread is the holder of connection_lock; the lock is held nowhere else.
C2_LecturasSerializadas ==
  /\ Cardinality({t \in Callers : EnCuerpoLeerUid(t)}) <= 1
  /\ \A t \in Callers : EnCuerpoLeerUid(t) <=> connection_lock = t

\* one caller polls the port while another waits for the lock
C2_Testigo ==
  \E t, u \in Callers : t # u /\ pc[t] = "leer_poll" /\ pc[u] = "leer_lock"

\* C3 (as stated): no thread is inside abrir_conexion_serial or
\* cerrar_conexion_serial while another thread is inside the critical section
\* of leer_uid or inside another open or close.
C3_OperacionesExcluyentes ==
  Cardinality({t \in Threads : EnAbrir(t) \/ EnCerrar(t) \/ EnCuerpoLeerUid(t)}) <= 1

\* C4 (as stated): once a probe has returned, the handle it opened is closed:
\* no open probe handle is left without a probe that is using it.
C4_SondaCierraSiempre ==
  /\ \A l \in leaked : l.kind # "probe"
  /\ \A d \in Disc : ser[d] # None => Sondeando(d)

\* C5: a probe returns success exactly when a line read in its listen window
\* decodes to an object whose status is "online"; it returns at the first such
\* line; and a probe that reached the listen window fails only when the window
\* is used up, whatever the lines it read before.
C5_ExitoSiiOnline ==
  \A d \in Disc :
    /\ pc[d] = "healthcheck_listen" => ~online_rx[d]
    /\ (probes[d] # <<>> /\ ~Sondeando(d)) => (UltimaSonda(d) <=> online_rx[d])
    /\ ( /\ probes[d] # <<>>
         /\ ~Sondeando(d)
         /\ ~UltimaSonda(d)
         /\ sent[d] = HEALTHCHECK_ATTEMPTS ) => listened[d] = ListenSlices

\* a probe succeeded on the third line of its window
C5_Testigo ==
  \E d \in Disc : estado[d] = "found" /\ online_rx[d] /\ listened[d] = 2

\* C6: within one run the ports are probed one at a time in the order of the
\* list, the probe of a port starts when those of all the ports before it have
\* returned without success, and the run ends with "found" and that port at the
\* first success, with no later port opened.
C6_SondeoSecuencial ==
  \A d \in Disc :
    LET n == Len(probes[d]) IN
      /\ started[d] = n + (IF Sondeando(d) THEN 1 ELSE 0)
      /\ \A i \in 1..(n - 1) : ~probes[d][i]
      /\ (pc[d] = "healthcheck_open" \/ Sondeando(d)) =>
           (idx[d] = n + 1 /\ idx[d] <= Len(puertos[d]))
      /\ ser[d] # None => (Sondeando(d) /\ ser[d] = puertos[d][idx[d]])
      /\ estado[d] = "found" <=> (n > 0 /\ probes[d][n])
      /\ estado[d] = "found" =>
           /\ hallado[d] = puertos[d][n]
           /\ started[d] = n
           /\ pc[d] # "healthcheck_open"
           /\ ~Sondeando(d)

\* the first of two ports answered: the second was never opened
C6_Testigo ==
  \E d \in Disc :
    /\ estado[d] = "found"
    /\ hallado[d] = 1
    /\ Len(puertos[d]) = 2
    /\ started[d] = 1

\* C7: a run over a list of N ports none of whose probes succeeds ends, returns
\* no port, and has made exactly N probes, one per port; its status is
\* "not_found" (for N = 0, "no_ports_found", with no probe at all).
C7_NoEncontrado ==
  /\ [](\A d \in Disc :
          /\ estado[d] = "not_found" =>
               /\ hallado[d] = None
               /\ Len(puertos[d]) > 0
               /\ Len(probes[d]) = Len(puertos[d])
               /\ started[d] = Len(puertos[d])
               /\ \A i \in 1..Len(probes[d]) : ~probes[d][i]
          /\ estado[d] = "no_ports_found" =>
               /\ hallado[d] = None
               /\ puertos[d] = <<>>
               /\ started[d] = 0
               /\ probes[d] = <<>>
          /\ (pc[d] = "done" /\ \A i \in 1..Len(probes[d]) : ~probes[d][i]) =>
               estado[d] \in {"not_found", "no_ports_found", "enum_error"})
  /\ \A d \in Disc : (pc[d] = "encontrar") ~> (estado[d] # "none")

\* a run over two ports ended without a reader
C7_Testigo ==
  \E d \in Disc :
    /\ estado[d] = "not_found"
    /\ Len(puertos[d]) = 2
    /\ probes[d] = <<FALSE, FALSE>>

\* C8: when the probe of a port that is not the last one returns failure, for
\* whatever reason, the run goes on with the next port of the same list; and a
\* probe that succeeds, after any number of failures, ends the run with
\* "found" and its port.
C8_FalloNoAborta ==
  [][\A d \in Disc :
       Len(probes'[d]) = Len(probes[d]) + 1 =>
         /\ (~probes'[d][Len(probes'[d])] /\ idx[d] < Len(puertos[d])) =>
              /\ pc'[d] = "healthcheck_open"
              /\ idx'[d] = idx[d] + 1
              /\ puertos'[d] = puertos[d]
              /\ estado'[d] = "none"
         /\ probes'[d][Len(probes'[d])] =>
              /\ estado'[d] = "found"
              /\ hallado'[d] = puertos[d][idx[d]]]_vars

\* the write on the first port failed and the reader was found on the second
C8_Testigo ==
  \E d \in Disc :
    /\ probes[d] = <<FALSE, TRUE>>
    /\ estado[d] = "found"
    /\ hallado[d] = 2
    /\ [port |-> 1, kind |-> "probe"] \in leaked

\* C9: leer_uid never goes past a line it read that decodes to an object with
\* a uid, and when it returns a uid it is the uid field of the line it read
\* last; the lines it read before carried none.
C9_PrimerUid ==
  \A t \in Callers :
    /\ ~skipped_uid[t]
    /\ result[t].kind = "uid" => (rx_uid[t] # NoUid /\ result[t].uid = rx_uid[t])
    /\ (pc[t] = "leer_poll" /\ leidas[t] > 0) => rx_uid[t] = NoUid

\* a uid was returned from the second line read in the call
C9_Testigo ==
  \E t \in Callers :
    /\ result[t] = [kind |-> "uid", uid |-> "04A1B2C3"]
    /\ leidas[t] >= 2

\* C10: a call of leer_uid during which the connection stayed open and free of
\* I/O errors ends with a uid or with TimeoutError, never with another error;
\* the step that raises TimeoutError leaves the connection and the port as
\* they are; and the read loop goes from a TimeoutError straight to its next
\* iteration.
C10_TimeoutNormal ==
  /\ [](\A t \in Callers :
          result[t].kind \notin {"none", "uid", "timeout"} => ~sano[t])
  /\ [][\A t \in Callers :
          /\ (pc[t] = "leer_poll" /\ result'[t].kind = "timeout") =>
               /\ serial_connection' = serial_connection
               /\ puerto' = puerto
               /\ leaked' = leaked
          /\ ( /\ pc[t] = "read_loop_result"
               /\ result[t].kind = "timeout"
               /\ pc'[t] # pc[t] ) => pc'[t] = "read_loop"]_vars

\* the read loop got a TimeoutError from a call that read a line on an open,
\* error-free connection
C10_Testigo ==
  \E t \in Loops :
    /\ pc[t] = "read_loop_result"
    /\ result[t].kind = "timeout"
    /\ sano[t]
    /\ leidas[t] >= 1
    /\ IsOpen(serial_connection)

(* ---------------------- reconnection after a loss ---------------------- *)
\* C11: a device or port-loss error inside leer_uid is answered by one call
\* of abrir_conexion_serial on self.puerto, made with the lock held; when the
\* call returns True the polling loop goes on under the same lock, when it
\* returns False leer_uid ends at once with the connection-loss error and
\* releases the lock; the attempt is not repeated and no port is probed.
C11_UnaReapertura ==
  [][\A t \in Callers :
       /\ (pc[t] = "leer_poll" /\ EnAbrir(t)')
            => /\ pc'[t] = "abrir_check"
               /\ ret'[t] = "leer_uid_rec"
               /\ connection_lock' = t
               /\ puerto' = puerto
       /\ (pc[t] = "abrir_open" /\ pc'[t] = "abrir_settle")
            => serial_connection'.port = puerto
       /\ (EnAbrir(t) /\ ret[t] = "leer_uid_rec" /\ ~EnAbrir(t)')
            => IF pc[t] = "abrir_settle"
                 THEN /\ pc'[t] = "leer_poll"
                      /\ result'[t] = NoResult
                      /\ connection_lock' = t
                 ELSE /\ pc'[t] \in {"done", "read_loop_result"}
                      /\ result'[t].kind = "lost"
                      /\ connection_lock' = None
       /\ (EnAbrir(t) /\ ret[t] = "leer_uid_rec" /\ pc'[t] # pc[t])
            => pc'[t] # "abrir_check"
       /\ (EnAbrir(t) /\ ret[t] = "leer_uid_rec")
            => \A d \in Disc : pc'[d] = "idle"]_vars

\* a call of leer_uid returned a UID after it had reopened the connection
\* following a loss, and no discovery ran
C11_Testigo ==
  \E t \in Callers :
    /\ result[t].kind = "uid"
    /\ ret[t] = "leer_uid_rec"
    /\ ~sano[t]
    /\ \A d \in Disc : pc[d] = "idle"

\* C12 (as stated): in the step in which the reopen fails and leer_uid ends
\* with the connection-loss error, the main window stops showing the system
\* as connected.
C12_FalloSenalado ==
  [][\A t \in Callers :
       (result[t].kind # "lost" /\ result'[t].kind = "lost") => ~indicador']_vars

C15_DecodificacionInocua ==
  [][\A t \in Callers :
       /\ (leidas'[t] = leidas[t] + 1)
            => /\ serial_connection' = serial_connection
               /\ puerto' = puerto
               /\ leaked' = leaked
               /\ fallo_reapertura' = fallo_reapertura
               /\ sano'[t] = sano[t]
               /\ ~EnAbrir(t)'
       /\ (mal_json'[t] /\ ~mal_json[t])
            => /\ pc'[t] = "leer_poll"
               /\ connection_lock' = t
               /\ result'[t] = NoResult
       /\ (pc[t] = "leer_poll" /\ EnAbrir(t)')
            => /\ leidas'[t] = leidas[t]
               /\ in_waiting' = in_waiting
               /\ ~sano'[t]]_vars

\* a call read a line that failed decoding and later returned a UID over the
\* connection it started with
C15_Testigo ==
  \E t \in Callers :
    /\ mal_json[t]
    /\ sano[t]
    /\ result[t].kind = "uid"
    /\ ret[t] = "none"
    /\ IsOpen(serial_connection)

C17_LiberaEntreSondeos ==
  [][\A t \in Callers :
       (pc[t] = "leer_poll" /\ pc'[t] = "leer_poll" /\ elapsed'[t] # elapsed[t])
         => connection_lock' = None]_vars

\* C18 (as stated): the healthcheck writes and the listening of a probe never
\* run on a port while leer_uid polls the persistent connection on that port.
C18_SinIntercalado ==
  \A d \in Disc : \A t \in Callers :
    ~ /\ Sondeando(d)
      /\ pc[t] = "leer_poll"
      /\ connection_lock = t
      /\ IsOpen(serial_connection)
      /\ serial_connection.port = ser[d]

(* ----------------------- the persistent connection -------------------- *)
\* C19: a step of leer_uid made on an open connection without an I/O error
\* neither opens nor closes anything: the handle is the same object on the
\* same port before and after, no handle is replaced, and the call does not
\* enter abrir_conexion_serial; so a call that ends without error leaves the
\* handle it found.
C19_ConexionPersistente ==
  [][\A t \in Callers :
       (EnCuerpoLeerUid(t) /\ sano[t] /\ sano'[t]
          /\ (pc'[t] # pc[t] \/ elapsed'[t] # elapsed[t] \/ leidas'[t] # leidas[t]))
         => /\ serial_connection' = serial_connection
            /\ leaked' = leaked
            /\ puerto' = puerto
            /\ ~EnAbrir(t)']_vars

\* a one-shot read timed out and a read of the loop returned a UID, both on
\* the connection they found open, which is still open
C19_Testigo ==
  \E t \in OneShot : \E u \in Loops :
    /\ result[t].kind = "timeout"
    /\ sano[t]
    /\ result[u].kind = "uid"
    /\ sano[u]
    /\ IsOpen(serial_connection)
    /\ leaked = {}

(* -------------------------------- shutdown ----------------------------- *)
\* C20 (as stated): once on_closing has run, no handle of the persistent
\* connection is open, whatever the state before, and none is opened later.
C20_CierreCierraTodo ==
  pc[Gui] = "destroyed" => OpenPersistent = 0

(* ------------------------------ the probe ------------------------------ *)
\* C21 (as stated): a probe in which the open, a write or a read met an I/O
\* error returns False.
C21_ErrorImplicaFallo ==
  [][\A d \in Disc :
       ( /\ Len(probes'[d]) = Len(probes[d]) + 1
         /\ fallo_io[d] # "none" \/ fallo_io'[d] # "none" )
         => ~probes'[d][Len(probes'[d])]]_vars

\* C22: a probe opens the port, writes the payload HEALTHCHECK_ATTEMPTS times
\* whatever arrives meanwhile, then listens, then closes: while it writes it
\* has read nothing, it listens only with all the payloads written, a payload
\* is written only before the listening begins, and a probe that listened
\* closes the port when it returns.
C22_OrdenDeLaSonda ==
  /\ [](\A d \in Disc :
          /\ pc[d] = "healthcheck_write"
               => /\ sent[d] < HEALTHCHECK_ATTEMPTS
                  /\ listened[d] = 0
                  /\ ~online_rx[d]
                  /\ ser[d] # None
          /\ pc[d] = "healthcheck_listen"
               => /\ sent[d] = HEALTHCHECK_ATTEMPTS
                  /\ ser[d] # None)
  /\ [][\A d \in Disc :
          /\ (pc[d] = "healthcheck_open" /\ pc'[d] # pc[d])
               => \/ pc'[d] = "healthcheck_write" /\ sent'[d] = 0
                  \/ Len(probes'[d]) = Len(probes[d]) + 1
          /\ (sent'[d] # sent[d] /\ sent'[d] # 0)
               => /\ pc[d] = "healthcheck_write"
                  /\ sent'[d] = sent[d] + 1
          /\ (pc[d] = "healthcheck_write" /\ pc'[d] = "healthcheck_listen")
               => sent'[d] = HEALTHCHECK_ATTEMPTS
          /\ (pc[d] = "healthcheck_write" /\ pc'[d] \notin {pc[d], "healthcheck_listen"})
               => /\ Len(probes'[d]) = Len(probes[d]) + 1
                  /\ ~probes'[d][Len(probes'[d])]
          /\ (listened'[d] > listened[d] \/ (online_rx'[d] /\ ~online_rx[d]))
               => /\ pc[d] = "healthcheck_listen"
                  /\ sent'[d] = sent[d]
          /\ (pc[d] = "healthcheck_listen" /\ pc'[d] # pc[d])
               => /\ Len(probes'[d]) = Len(probes[d]) + 1
                  /\ ser'[d] = None
                  /\ leaked' = leaked]_vars

\* a probe succeeded on a line it read after writing the three payloads
C22_Testigo ==
  \E d \in Disc :
    /\ estado[d] = "found"
    /\ sent[d] = HEALTHCHECK_ATTEMPTS
    /\ listened[d] > 0
    /\ ser[d] = None

\* C23 (as stated): a discovery run always ends with one of the results
\* found, not found, or no ports; a failing enumeration counts as no ports.
C23_EnumeracionNoPropaga ==
  \A d \in Disc :
    pc[d] = "done" => estado[d] \in {"found", "not_found", "no_ports_found"}

\* C24 (as stated): two probes that failed for different reasons returned
\* different results.
C24_MotivoDistinguible ==
  \A d, e \in Disc :
    (SondaFallida(d) /\ SondaFallida(e) /\ Causa(d) # Causa(e))
      => probes[d][Len(probes[d])] # probes[e][Len(probes[e])]

(* ----------------------- closing and failing to open ------------------ *)
\* C25: cerrar_conexion_serial called with no connection, or with one that
\* is already closed, returns at once and changes nothing; every return of it
\* leaves self.serial_connection without an open handle; so a second call in
\* a row finds nothing to do and leaves the state of the first.
C25_CerrarIdempotente ==
  [][\A t \in Threads :
       /\ (pc[t] = "cerrar_check" /\ pc'[t] # pc[t] /\ ~IsOpen(serial_connection))
            => /\ ~EnCerrar(t)'
               /\ connVars' = connVars
               /\ connection_lock' = connection_lock
               /\ ret' = ret
       /\ (pc[t] = "cerrar_check" /\ pc'[t] # pc[t] /\ IsOpen(serial_connection))
            => pc'[t] = "cerrar_close"
       /\ (EnCerrar(t) /\ ~EnCerrar(t)')
            => /\ ~IsOpen(serial_connection')
               /\ puerto' = puerto]_vars

\* a Reconectar has called cerrar_conexion_serial on a connection object that
\* was already closed and has gone on to the discovery with it unchanged
C25_Testigo ==
  \E d \in Disc :
    /\ pc[d] = "encontrar"
    /\ ret[d] = "reconectar"
    /\ serial_connection.obj
    /\ ~serial_connection.is_open

\* C26 (as stated): when serial.Serial raises, abrir_conexion_serial returns
\* False to its caller in that step and stores nothing; self.serial_connection
\* is not an open handle afterwards;
\* a leer_uid that made the call ends with a connection error, never with a
\* UID or a timeout.
C26_AperturaFallida ==
  [][\A t \in Threads :
       (pc[t] = "abrir_open" /\ pc'[t] # "abrir_open" /\ pc'[t] # "abrir_settle")
         => /\ serial_connection' = serial_connection
            /\ ~IsOpen(serial_connection')
            /\ leaked' = leaked
            /\ ret[t] = "read_loop" => pc'[t] = "read_loop"
            /\ ret[t] = "leer_uid_pre"
                 => /\ result'[t].kind = "no_connection"
                    /\ connection_lock' = None
            /\ ret[t] = "leer_uid_rec"
                 => /\ result'[t].kind = "lost"
                    /\ connection_lock' = None]_vars

C28_BotonesTrasConexion ==
  \A d \in Disc :
    (pc[d] = "done" /\ ~conectado[d] /\ ~indicador) => ~botones

\* C29 (as stated): no two discovery threads are inside a probe at the same
\* time.
C29_UnSoloDescubrimiento ==
  \A d, e \in Disc : (d # e /\ Sondeando(d)) => ~Sondeando(e)

\* C30 (as stated): at most one read_loop thread of the window is alive.
C30_UnSoloLazo == LazosVivos <= 1

(* --------------------------- the lock of leer_uid ---------------------- *)
\* C31: connection_lock is held only by a thread that is inside the body of
\* leer_uid; every step that takes a thread out of the body, whether with a
\* uid, with TimeoutError, with the failure to open the connection or with
\* the failure of a reopen, leaves the lock free; and a thread that waits
\* for the lock enters the body exactly by taking the free lock.
C31_CandadoLiberado ==
  /\ [](connection_lock # None =>
          /\ connection_lock \in Callers
          /\ EnCuerpoLeerUid(connection_lock))
  /\ [][\A t \in Callers :
          /\ (EnCuerpoLeerUid(t) /\ ~EnCuerpoLeerUid(t)') =>
               /\ connection_lock' = None
               /\ result'[t].kind \in {"uid", "timeout", "no_connection", "lost"}
               /\ pc'[t] \in {"done", "read_loop_result"}
          /\ (pc[t] = "leer_lock" /\ pc'[t] # "leer_lock") =>
               /\ connection_lock = None
               /\ connection_lock' = t
               /\ pc'[t] = "leer_check"]_vars

\* a one-shot call has ended with the failure of a reopen, and the read loop
\* has taken the lock after it and is polling
C31_Testigo ==
  \E t \in OneShot : \E u \in Loops :
    /\ pc[t] = "done"
    /\ result[t].kind = "lost"
    /\ connection_lock = u
    /\ pc[u] = "leer_poll"
    /\ leidas[u] >= 1

\* C32 (as stated): a call of leer_uid ends with TimeoutError only if the
\* connection was open and free of I/O errors all through the call; a call
\* during which another thread closed or cleared the connection does not end
\* with TimeoutError.
C32_TimeoutSoloConConexion ==
  \A t \in Callers : result[t].kind = "timeout" => sano[t]

(* ----------------------------- re-discovery ---------------------------- *)
\* C33 (as stated): while a probe of a discovery started by Reconectar has a
\* port open, the persistent connection is not open on that port.
C33_SondaSinConexionAbierta ==
  \A d \in Disc :
    (ret[d] = "reconectar" /\ Sondeando(d))
      => ~(IsOpen(serial_connection) /\ serial_connection.port = ser[d])

C35_PuertoConHandshake ==
  /\ [](puerto = None =>
          /\ ~IsOpen(serial_connection)
          /\ \A l \in leaked : l.kind # "persistent")
  /\ [][/\ puerto' # puerto =>
            \E d \in Disc :
              /\ pc[d] = "healthcheck_listen"
              /\ sent[d] = HEALTHCHECK_ATTEMPTS
              /\ online_rx'[d]
              /\ ser[d] \in Ports
              /\ puerto' = ser[d]
              /\ pc'[d] = "abrir_check"
              /\ ret'[d] = "buscar"
        /\ (IsOpen(serial_connection') /\ serial_connection' # serial_connection) =>
            /\ puerto \in Ports
            /\ serial_connection'.port = puerto
            /\ \E t \in Threads : pc[t] = "abrir_open" /\ pc'[t] = "abrir_settle"]_vars

\* the discovery has connected on the port it found, and a call of leer_uid
\* has reopened the connection on that port after a loss
C35_Testigo ==
  /\ pc[1] = "done"
  /\ conectado[1]
  /\ hallado[1] = puerto
  /\ IsOpen(serial_connection)
  /\ serial_connection.port = puerto
  /\ \E t \in OneShot : pc[t] = "abrir_settle" /\ ret[t] = "leer_uid_rec"

(* ------------------------------- deletion ------------------------------ *)
\* C36 (as stated): a row leaves table alumnos only in a step taken while
\* the read that ended last in the deletion window returned the uid of that
\* row and found it registered.
C36_SoloUltimaLectura ==
  [][\A u \in alumnos :
       u \notin alumnos' =>
         ultima_lectura = [kind |-> "registrada", uid |-> u]]_vars

====
